---- MODULE Spec2Model ----
(***************************************************************************)
(* Verification model of distdl's tensor-structure negotiation             *)
(* (backends/mpi/tensor_comm.py), of the global-structure assembly built   *)
(* on it, and of the block decomposition and redistribution schedule that  *)
(* tests/test_transpose_layer.py exercises.                                *)
(*                                                                         *)
(* Three state machines share the module:                                  *)
(*   Spec / SpecFair  compute_output_tensor_structure, one process per     *)
(*                    worker, interleaved, MPI collectives matched in      *)
(*                    issue order per communicator;                        *)
(*   SpecAsm          assemble_global_tensor_structure;                    *)
(*   SpecRedist       compute_subsizes, plan, execute_forward and          *)
(*                    execute_adjoint of the distributed transpose.        *)
(***************************************************************************)
EXTENDS Integers, Sequences, FiniteSets, TLC

\* ------------------------------------------------------------------ bounds
\* Number of workers (MPI ranks) in the negotiation world.
NumWorkers == 3
\* Largest tensor dimensionality negotiated.
MaxNegDim == 2
\* Largest magnitude of an integer held in a flag buffer.
MaxFlagValue == 15

\* Number of ranks in the assembly world and largest global extent per axis
\* assembled.
MaxRanks == 4
MaxAsmExtent == 3

\* Redistribution: largest number of elements of the global array and
\* largest grid extent per axis.
MaxElems == 6
MaxGridExtent == 2
\* Number of tensor axes in the transpose tests (global_tensor_sizes).
TensorAxes == 2

Workers == 0 .. (NumWorkers - 1)

VARIABLES
    \* ---- compute_output_tensor_structure
    sendM,      \* member set of P_send
    recvM,      \* member set of P_recv
    tensor,     \* the local structure every source member holds
    pc,         \* each worker's position in the function
    issued,     \* issued[w][c]: the buffers w contributed to communicator c, in issue order
    requests,   \* requests[w]: the worker's `requests` list, as <<communicator, index>> handles
    nwaits,     \* number of Wait / Waitall calls the worker made
    earlyRead,  \* the worker read a reduction output while one of its requests was outstanding
    ret,        \* the returned triple
    \* ---- assemble_global_tensor_structure
    aGrid,      \* P_in's Cartesian grid shape; P_in's members are ranks 0 .. product-1
    aOut,       \* P_out: [given, members]
    aLocal,     \* the global shape, dtype and flag the local structures derive from
    apc,        \* each rank's position in the function
    aAxis,      \* the loop variable i (0-based)
    aShape,     \* global_tensor_shape
    aIntID,     \* intID_dtype
    aRgInt,     \* requires_grad_int
    aStruct,    \* global_tensor_structure
    \* ---- distributed transpose
    rShape,     \* global_tensor_sizes
    rIn,        \* in_dims: the source grid, on ranks 0 .. in_size-1
    rOut,       \* out_dims: the destination grid, on ranks rOff .. rOff+out_size-1
    rOff,       \* first rank of the destination partition
    rXsel,      \* which forward input x is (0: a dense ramp, p: the p-th unit array)
    rYsel,      \* which adjoint input y is
    rX,         \* x, per source rank
    rY,         \* y, per destination rank
    rStage,     \* "init", "planned", "forwarded", "done"
    rSched,     \* the schedule: a set of [src, dst, lo, hi]
    rAx,        \* forward(x), per destination rank
    rAsy,       \* adjoint(y), per source rank
    \* ---- the two decodings of the flag integer
    dIn,        \* the integer held in the flag buffer
    dAsm,       \* what line 131 makes of it
    dNeg        \* what line 71 makes of it

negVars == <<sendM, recvM, tensor, pc, issued, requests, nwaits, earlyRead, ret>>
asmVars == <<aGrid, aOut, aLocal, apc, aAxis, aShape, aIntID, aRgInt, aStruct>>

redVars == <<rShape, rIn, rOut, rOff, rXsel, rYsel, rX, rY, rStage, rSched, rAx, rAsy>>

decVars == <<dIn, dAsm, dNeg>>

vars == <<negVars, asmVars, redVars, decVars>>

\* ------------------------------------------------------------- partitions
\* Partition.active: true iff the calling worker is a member.
SendActive(w) == w \in sendM
RecvActive(w) == w \in recvM

\* Partition equality (P_send != P_recv): same members.
SamePartition == sendM = recvM

\* P.comm: the communicator scoped to the partition's members.
Members(c) == IF c = "send" THEN sendM ELSE recvM

\* ------------------------------------------------------------ collectives
Max2(a, b) == IF a >= b THEN a ELSE b

RECURSIVE SetMax(_)
SetMax(S) == LET x == CHOOSE y \in S : TRUE
             IN  IF S = {x} THEN x ELSE Max2(x, SetMax(S \ {x}))

\* The k-th collective on communicator c completes once every member has
\* entered its k-th collective on c.
Completed(c, k) == \A m \in Members(c) : Len(issued[m][c]) >= k

\* MPI.MAX over the members' contributions, element by element (IN_PLACE:
\* the result lands in the contributed buffer).
Reduced(c, k) ==
    LET n == Len(issued[CHOOSE m \in Members(c) : TRUE][c][k])
    IN  [j \in 1 .. n |-> SetMax({issued[m][c][k][j] : m \in Members(c)})]

RequestDone(r) == Completed(r[1], r[2])

\* --------------------------------------------- compute_output_tensor_structure
Unset == [tag |-> "unset", rg |-> FALSE, dim |-> 0, shape |-> <<>>]
\* (None, None, None)
NoneTriple == [tag |-> "none", rg |-> FALSE, dim |-> 0, shape |-> <<>>]
Triple(rg, dim, shape) == [tag |-> "value", rg |-> rg, dim |-> dim, shape |-> shape]

\* 1 if tensor.requires_grad else 0
FlagInt(b) == IF b THEN 1 ELSE 0

\* line 12: not P_send.active and not P_recv.active
NoInterestNever(w) == FALSE
NoInterest(w) == ~SendActive(w) /\ ~RecvActive(w)

\* lines 19-24, 30, 36: the three source-scoped buffers, in issue order
SendBuffers(w) ==
    << <<FlagInt(tensor.requires_grad)>>, <<Len(tensor.shape)>>, tensor.shape >>

\* lines 46-47: the destination-scoped flag and dimensionality buffers
RecvFlagBuffer(w) == <<-1>>
RecvDimBufferZero(w) == <<0>>
RecvDimBuffer(w) == <<-1>>

\* lines 59-60: np.zeros(recv_tensor_dim) filled with -1
RecvShapeBuffer(d) == [j \in 1 .. d |-> -1]

\* line 44 / line 70: (P_send != P_recv) and P_recv.active
ReceivesUnlessSender(w) == ~SamePartition /\ RecvActive(w) /\ ~SendActive(w)
Receives(w) == ~SamePartition /\ RecvActive(w)

\* line 71: bool(rg_int_recv[0] == 1)
DecodeFlag(v) == v = 1

\* Outstanding(w): some request of the worker's list is not complete.
OutstandingNever(w) == FALSE
Outstanding(w) == \E i \in 1 .. Len(requests[w]) : ~RequestDone(requests[w][i])

\* lines 12-15
Enter(w) ==
    /\ pc[w] = "start"
    /\ IF NoInterest(w)
       THEN /\ ret' = [ret EXCEPT ![w] = NoneTriple]
            /\ pc' = [pc EXCEPT ![w] = "done"]
       ELSE /\ pc' = [pc EXCEPT ![w] = "send"]
            /\ UNCHANGED ret
    /\ UNCHANGED <<sendM, recvM, tensor, issued, requests, nwaits, earlyRead>>
    /\ UNCHANGED <<asmVars, redVars, decVars>>

\* lines 17-37: three non-blocking reductions on P_send.comm
SendReductions(w) ==
    /\ pc[w] = "send"
    /\ IF SendActive(w)
       THEN /\ issued' = [issued EXCEPT ![w]["send"] = @ \o SendBuffers(w)]
            /\ requests' = [requests EXCEPT ![w] =
                               @ \o << <<"send", 1>>, <<"send", 2>>, <<"send", 3>> >>]
       ELSE UNCHANGED <<issued, requests>>
    /\ pc' = [pc EXCEPT ![w] = "recv"]
    /\ UNCHANGED <<sendM, recvM, tensor, nwaits, earlyRead, ret>>
    /\ UNCHANGED <<asmVars, redVars, decVars>>

\* lines 44-56: the flag reduction (kept in requests) and the dimensionality
\* reduction (waited for on its own) on P_recv.comm
RecvFlagDim(w) ==
    /\ pc[w] = "recv"
    /\ IF Receives(w)
       THEN /\ issued' = [issued EXCEPT ![w]["recv"] =
                             @ \o <<RecvFlagBuffer(w), RecvDimBuffer(w)>>]
            /\ requests' = [requests EXCEPT ![w] = Append(@, <<"recv", 1>>)]
            /\ pc' = [pc EXCEPT ![w] = "waitdim"]
       ELSE /\ pc' = [pc EXCEPT ![w] = "waitall"]
            /\ UNCHANGED <<issued, requests>>
    /\ UNCHANGED <<sendM, recvM, tensor, nwaits, earlyRead, ret>>
    /\ UNCHANGED <<asmVars, redVars, decVars>>

\* line 57: req.Wait() blocks until the dimensionality reduction completes
WaitDim(w) ==
    /\ pc[w] = "waitdim"
    /\ Completed("recv", 2)
    /\ nwaits' = [nwaits EXCEPT ![w] = @ + 1]
    /\ pc' = [pc EXCEPT ![w] = "alloc"]
    /\ UNCHANGED <<sendM, recvM, tensor, issued, requests, earlyRead, ret>>
    /\ UNCHANGED <<asmVars, redVars, decVars>>

\* lines 59-62: size the shape buffer from the reduced dimensionality (numpy
\* raises ValueError on a negative dimension) and issue the shape reduction
AllocShape(w) ==
    /\ pc[w] = "alloc"
    /\ earlyRead' = [earlyRead EXCEPT ![w] = Outstanding(w)]
    /\ LET d == Reduced("recv", 2)[1]
       IN  IF d < 0
           THEN /\ pc' = [pc EXCEPT ![w] = "raised"]
                /\ UNCHANGED <<issued, requests>>
           ELSE /\ issued' = [issued EXCEPT ![w]["recv"] = Append(@, RecvShapeBuffer(d))]
                /\ requests' = [requests EXCEPT ![w] = Append(@, <<"recv", 3>>)]
                /\ pc' = [pc EXCEPT ![w] = "waitall"]
    /\ UNCHANGED <<sendM, recvM, tensor, nwaits, ret>>
    /\ UNCHANGED <<asmVars, redVars, decVars>>

\* line 66: MPI.Request.Waitall(requests)
Waitall(w) ==
    /\ pc[w] = "waitall"
    /\ ~Outstanding(w)
    /\ nwaits' = [nwaits EXCEPT ![w] = @ + 1]
    /\ pc' = [pc EXCEPT ![w] = "final"]
    /\ UNCHANGED <<sendM, recvM, tensor, issued, requests, earlyRead, ret>>
    /\ UNCHANGED <<asmVars, redVars, decVars>>

\* lines 70-85
FinalValues(w) ==
    IF Receives(w)
    THEN Triple(DecodeFlag(Reduced("recv", 1)[1]),
                Reduced("recv", 2)[1],
                Reduced("recv", 3))
    ELSE IF SamePartition
         THEN Triple(tensor.requires_grad, Len(tensor.shape), tensor.shape)
         ELSE NoneTriple

Final(w) ==
    /\ pc[w] = "final"
    /\ ret' = [ret EXCEPT ![w] = FinalValues(w)]
    /\ pc' = [pc EXCEPT ![w] = "done"]
    /\ UNCHANGED <<sendM, recvM, tensor, issued, requests, nwaits, earlyRead>>
    /\ UNCHANGED <<asmVars, redVars, decVars>>

Step(w) ==
    \/ Enter(w)
    \/ SendReductions(w)
    \/ RecvFlagDim(w)
    \/ WaitDim(w)
    \/ AllocShape(w)
    \/ Waitall(w)
    \/ Final(w)

\* One tensor shape for each dimensionality 0 .. MaxNegDim: (), (2,), (2, 3), ...
NegShapes == {[j \in 1 .. d |-> j + 1] : d \in 0 .. MaxNegDim}

NegInit ==
    /\ sendM \in SUBSET Workers
    /\ recvM \in SUBSET Workers
    /\ tensor \in [shape : NegShapes, requires_grad : BOOLEAN]
    /\ pc = [w \in Workers |-> "start"]
    /\ issued = [w \in Workers |-> [c \in {"send", "recv"} |-> <<>>]]
    /\ requests = [w \in Workers |-> <<>>]
    /\ nwaits = [w \in Workers |-> 0]
    /\ earlyRead = [w \in Workers |-> FALSE]
    /\ ret = [w \in Workers |-> Unset]

\* The negotiation machine at rest, while another machine runs.
NegIdle ==
    /\ sendM = {}
    /\ recvM = {}
    /\ tensor = [shape |-> <<>>, requires_grad |-> FALSE]
    /\ pc = [w \in Workers |-> "done"]
    /\ issued = [w \in Workers |-> [c \in {"send", "recv"} |-> <<>>]]
    /\ requests = [w \in Workers |-> <<>>]
    /\ nwaits = [w \in Workers |-> 0]
    /\ earlyRead = [w \in Workers |-> FALSE]
    /\ ret = [w \in Workers |-> Unset]

Terminated(w) == pc[w] \in {"done", "raised"}
AllTerminated == \A w \in Workers : Terminated(w)

\* ------------------------------------------------------ block decomposition
RECURSIVE Prod(_)
Prod(s) == IF s = <<>> THEN 1 ELSE Head(s) * Prod(Tail(s))

\* Cartesian coordinates of rank r in a grid, last axis varying fastest.
CoordsOf(grid, r) ==
    [j \in 1 .. Len(grid) |->
        (r \div Prod(SubSeq(grid, j + 1, Len(grid)))) % grid[j]]

\* One axis of compute_subsizes: sizes // dims, plus one where
\* coords < sizes % dims.
SubSizeInclusive(g, c, n) == (n \div g) + (IF c <= n % g THEN 1 ELSE 0)
SubSize(g, c, n) == (n \div g) + (IF c < n % g THEN 1 ELSE 0)

\* compute_subsizes(dims, coords, sizes)
ComputeSubsizes(dims, coords, sizes) ==
    [j \in 1 .. Len(sizes) |-> SubSize(dims[j], coords[j], sizes[j])]

\* ------------------------------------------ assemble_global_tensor_structure
Ranks == 0 .. (MaxRanks - 1)
DTypes == {"float32", "float64"}

\* torch_to_intID_dtype_dict / intID_to_torch_dtype_dict
TorchToIntID(d) == IF d = "float32" THEN 1 ELSE 2
IntIDToTorch(n) == IF n = 1 THEN "float32" ELSE IF n = 2 THEN "float64" ELSE "invalid"

NoneSeq == [def |-> FALSE, v |-> <<>>]
NoneInt == [def |-> FALSE, v |-> 0]
NoneBool == [def |-> FALSE, v |-> FALSE]
Some(x) == [def |-> TRUE, v |-> x]

\* TensorStructure(): every field unknown
EmptyStructure == [shape |-> NoneSeq, dtype |-> "None", requires_grad |-> NoneBool]

\* P_in.dim, P_in's members and P_in.active
InDim == Len(aGrid)
InMembers == 0 .. (Prod(aGrid) - 1)
InActive(w) == w \in InMembers

\* P_out is not None and P_out.active
OutActiveAsIn(w) == aOut.given /\ InActive(w)
OutActive(w) == aOut.given /\ w \in aOut.members

\* local_tensor_structure on a member of P_in: its block of the global shape
LocalShape(w) == ComputeSubsizes(aGrid, CoordsOf(aGrid, w), aLocal.shape)

\* lines 100-101: keep = [False] * P_in.dim; keep[i] = True  (i is 0-based)
KeepAll(i) == [j \in 1 .. InDim |-> TRUE]
KeepMask(i) == [j \in 1 .. InDim |-> j = i + 1]

\* create_cartesian_subtopology_partition(keep): the members of P_in that
\* share this rank's coordinate on every axis that is not kept.
Subgroup(w, keep) ==
    {v \in InMembers :
        \A j \in 1 .. InDim :
            ~keep[j] => CoordsOf(aGrid, v)[j] = CoordsOf(aGrid, w)[j]}

\* line 105: v0 = local_tensor_structure.shape[i]
AxisExtentFirst(w, i) == LocalShape(w)[1]
AxisExtent(w, i) == LocalShape(w)[i + 1]

\* lines 106-107: Allreduce(v0, v1, op=MPI.SUM) over P_sub.comm
RECURSIVE SumOver(_, _)
SumOver(S, i) ==
    IF S = {} THEN 0
    ELSE LET v == CHOOSE x \in S : TRUE
         IN  AxisExtent(v, i) + SumOver(S \ {v}, i)

\* lines 114-115: the flag as a communicable integer
FlagBufferUnset(b) == -1
FlagBuffer(b) == IF b THEN 1 ELSE 0

\* line 131: bool(requires_grad_int[0])
DecodeBoolPositive(v) == v > 0
DecodeBool(v) == v # 0

\* How far a rank has come: used to tell whether it has entered a collective.
Pos(v) ==
    CASE apc[v] = "start"  -> 0
      [] apc[v] = "sub"    -> 1 + 2 * aAxis[v]
      [] apc[v] = "reduce" -> 2 + 2 * aAxis[v]
      [] apc[v] = "fields" -> 1 + 2 * InDim
      [] apc[v] = "bshape" -> 2 + 2 * InDim
      [] apc[v] = "bdtype" -> 3 + 2 * InDim
      [] apc[v] = "bflag"  -> 4 + 2 * InDim
      [] apc[v] = "done"   -> 5 + 2 * InDim

\* Partition.broadcast_data(data, P_data=P_in): the value held on P_in's
\* root (its lowest rank) reaches every active member of P_out; the call is
\* collective over P_out's active members.
BcastRoot == CHOOSE r \in InMembers : \A q \in InMembers : r <= q
BcastReady(k) ==
    /\ \A v \in aOut.members : Pos(v) >= k + 2 * InDim
    /\ Pos(BcastRoot) >= 2 + 2 * InDim

\* line 121, and line 133 for a rank that takes no part in the transfer
AfterAssembly(w) == IF OutActive(w) THEN "bshape" ELSE "done"

\* lines 89-97; a rank that is not active in P_in goes on to line 121
AsmEnter(w) ==
    /\ apc[w] = "start"
    /\ IF InActive(w)
       THEN /\ aShape' = [aShape EXCEPT ![w] = Some([j \in 1 .. InDim |-> 0])]
            /\ apc' = [apc EXCEPT ![w] = "sub"]
       ELSE /\ apc' = [apc EXCEPT ![w] = AfterAssembly(w)]
            /\ UNCHANGED aShape
    /\ UNCHANGED <<aGrid, aOut, aLocal, aAxis, aIntID, aRgInt, aStruct>>
    /\ UNCHANGED <<negVars, redVars, decVars>>

\* lines 100-103: the sub-topology is created collectively on P_in.comm
AsmSubtopology(w) ==
    /\ apc[w] = "sub"
    /\ \A v \in InMembers : Pos(v) >= 1 + 2 * aAxis[w]
    /\ apc' = [apc EXCEPT ![w] = "reduce"]
    /\ UNCHANGED <<aGrid, aOut, aLocal, aAxis, aShape, aIntID, aRgInt, aStruct>>
    /\ UNCHANGED <<negVars, redVars, decVars>>

\* lines 105-108: blocking sum over the single-axis subgroup
AsmAllreduce(w) ==
    /\ apc[w] = "reduce"
    /\ LET i == aAxis[w]
           sub == Subgroup(w, KeepMask(i))
       IN  /\ \A v \in sub : Pos(v) >= 2 + 2 * i
           /\ aShape' = [aShape EXCEPT ![w].v[i + 1] = SumOver(sub, i)]
           /\ aAxis' = [aAxis EXCEPT ![w] = i + 1]
           /\ apc' = [apc EXCEPT ![w] = IF i + 1 < InDim THEN "sub" ELSE "fields"]
    /\ UNCHANGED <<aGrid, aOut, aLocal, aIntID, aRgInt, aStruct>>
    /\ UNCHANGED <<negVars, redVars, decVars>>

\* lines 110-121
AsmFields(w) ==
    /\ apc[w] = "fields"
    /\ aIntID' = [aIntID EXCEPT ![w] = Some(TorchToIntID(aLocal.dtype))]
    /\ aRgInt' = [aRgInt EXCEPT ![w] = Some(FlagBuffer(aLocal.requires_grad))]
    /\ aStruct' = [aStruct EXCEPT ![w] =
                      [shape |-> aShape[w],
                       dtype |-> aLocal.dtype,
                       requires_grad |-> Some(aLocal.requires_grad)]]
    /\ apc' = [apc EXCEPT ![w] = AfterAssembly(w)]
    /\ UNCHANGED <<aGrid, aOut, aLocal, aAxis, aShape>>
    /\ UNCHANGED <<negVars, redVars, decVars>>

\* line 123
AsmBcastShape(w) ==
    /\ apc[w] = "bshape"
    /\ BcastReady(2)
    /\ aStruct' = [aStruct EXCEPT ![w].shape = aShape[BcastRoot]]
    /\ apc' = [apc EXCEPT ![w] = "bdtype"]
    /\ UNCHANGED <<aGrid, aOut, aLocal, aAxis, aShape, aIntID, aRgInt>>
    /\ UNCHANGED <<negVars, redVars, decVars>>

\* lines 126-127
AsmBcastDtype(w) ==
    /\ apc[w] = "bdtype"
    /\ BcastReady(3)
    /\ aIntID' = [aIntID EXCEPT ![w] = aIntID[BcastRoot]]
    /\ aStruct' = [aStruct EXCEPT ![w].dtype = IntIDToTorch(aIntID[BcastRoot].v)]
    /\ apc' = [apc EXCEPT ![w] = "bflag"]
    /\ UNCHANGED <<aGrid, aOut, aLocal, aAxis, aShape, aRgInt>>
    /\ UNCHANGED <<negVars, redVars, decVars>>

\* lines 130-133
AsmBcastFlag(w) ==
    /\ apc[w] = "bflag"
    /\ BcastReady(4)
    /\ aRgInt' = [aRgInt EXCEPT ![w] = aRgInt[BcastRoot]]
    /\ aStruct' = [aStruct EXCEPT ![w].requires_grad = Some(DecodeBool(aRgInt[BcastRoot].v))]
    /\ apc' = [apc EXCEPT ![w] = "done"]
    /\ UNCHANGED <<aGrid, aOut, aLocal, aAxis, aShape, aIntID>>
    /\ UNCHANGED <<negVars, redVars, decVars>>

AsmStep(w) ==
    \/ AsmEnter(w)
    \/ AsmSubtopology(w)
    \/ AsmAllreduce(w)
    \/ AsmFields(w)
    \/ AsmBcastShape(w)
    \/ AsmBcastDtype(w)
    \/ AsmBcastFlag(w)

\* Grids of 1 .. TensorAxes axes whose ranks fit the world.
AsmGrids ==
    {g \in UNION {[1 .. d -> 1 .. MaxRanks] : d \in 1 .. TensorAxes} : Prod(g) <= MaxRanks}

\* P_out: absent, P_in's own ranks, or the last ranks of the world (which
\* contain, overlap or miss P_in's).
AsmOuts(g) ==
    {[given |-> FALSE, members |-> {}],
     [given |-> TRUE, members |-> 0 .. (Prod(g) - 1)]}
        \cup {[given |-> TRUE, members |-> lo .. (MaxRanks - 1)] : lo \in Ranks}

AsmInit ==
    /\ aGrid \in AsmGrids
    /\ aOut \in AsmOuts(aGrid)
    /\ aLocal \in [shape : [1 .. Len(aGrid) -> 1 .. MaxAsmExtent],
                   dtype : DTypes, requires_grad : BOOLEAN]
    /\ apc = [w \in Ranks |-> "start"]
    /\ aAxis = [w \in Ranks |-> 0]
    /\ aShape = [w \in Ranks |-> NoneSeq]
    /\ aIntID = [w \in Ranks |-> NoneInt]
    /\ aRgInt = [w \in Ranks |-> NoneInt]
    /\ aStruct = [w \in Ranks |-> EmptyStructure]

\* The assembly machine at rest.
AsmIdle ==
    /\ aGrid = <<1>>
    /\ aOut = [given |-> FALSE, members |-> {}]
    /\ aLocal = [shape |-> <<1>>, dtype |-> "float32", requires_grad |-> FALSE]
    /\ apc = [w \in Ranks |-> "done"]
    /\ aAxis = [w \in Ranks |-> 0]
    /\ aShape = [w \in Ranks |-> NoneSeq]
    /\ aIntID = [w \in Ranks |-> NoneInt]
    /\ aRgInt = [w \in Ranks |-> NoneInt]
    /\ aStruct = [w \in Ranks |-> EmptyStructure]

\* ------------------------------------------------------------ redistribution
\* Start offset of coordinate c on one axis: the prefix sum of the extents
\* of the coordinates before it.
RECURSIVE AxisStart(_, _, _)
AxisStart(g, c, n) == IF c = 0 THEN 0 ELSE AxisStart(g, c - 1, n) + SubSize(g, c - 1, n)

\* Per-axis start offsets of the block at `coords`.
ComputeStarts(dims, coords, sizes) ==
    [j \in 1 .. Len(sizes) |-> AxisStart(dims[j], coords[j], sizes[j])]

\* All index tuples of an array of the given shape, 0-based.
RECURSIVE IdxSet(_)
IdxSet(shape) ==
    IF shape = <<>> THEN {<<>>}
    ELSE {<<i>> \o r : i \in 0 .. (Head(shape) - 1), r \in IdxSet(Tail(shape))}

\* Row-major position of an index tuple, 1-based.
RECURSIVE LinearIdx(_, _)
LinearIdx(shape, idx) ==
    IF shape = <<>> THEN 1
    ELSE Head(idx) * Prod(Tail(shape)) + LinearIdx(Tail(shape), Tail(idx))

SeqAdd(a, b) == [j \in 1 .. Len(a) |-> a[j] + b[j]]
SeqSub(a, b) == [j \in 1 .. Len(a) |-> a[j] - b[j]]

\* P_in = ranks 0 .. in_size-1; P_out = out_size ranks from rOff on.
InRanks == 0 .. (Prod(rIn) - 1)
OutRanks == rOff .. (rOff + Prod(rOut) - 1)

\* Block of a source / destination rank: shape and start offset.
InShape(s) == ComputeSubsizes(rIn, CoordsOf(rIn, s), rShape)
InStart(s) == ComputeStarts(rIn, CoordsOf(rIn, s), rShape)
OutShape(t) == ComputeSubsizes(rOut, CoordsOf(rOut, t - rOff), rShape)
OutStart(t) == ComputeStarts(rOut, CoordsOf(rOut, t - rOff), rShape)

\* Axis-wise intersection of the two ranks' index ranges.
OverlapLo(s, t) == [j \in 1 .. Len(rShape) |-> Max2(InStart(s)[j], OutStart(t)[j])]
OverlapHi(s, t) ==
    [j \in 1 .. Len(rShape) |->
        LET a == InStart(s)[j] + InShape(s)[j]
            b == OutStart(t)[j] + OutShape(t)[j]
        IN  IF a <= b THEN a ELSE b]

\* The pair is kept only if the intersection is non-empty on every axis.
NonEmptySomeAxis(lo, hi) == \E j \in 1 .. Len(lo) : lo[j] < hi[j]
NonEmpty(lo, hi) == \A j \in 1 .. Len(lo) : lo[j] < hi[j]

\* plan(global_shape, source_partition, destination_partition)
PlanSchedule ==
    {[src |-> s, dst |-> t, lo |-> OverlapLo(s, t), hi |-> OverlapHi(s, t)] :
        <<s, t>> \in {p \in InRanks \X OutRanks :
                         NonEmpty(OverlapLo(p[1], p[2]), OverlapHi(p[1], p[2]))}}

InBox(e, idx) == \A j \in 1 .. Len(idx) : e.lo[j] <= idx[j] /\ idx[j] < e.hi[j]

\* Global arrays the local inputs are blocks of: selector 0 is a dense ramp,
\* selector p the unit array with a one at row-major position p.
GlobalValue(sel, idx) ==
    IF sel = 0 THEN LinearIdx(rShape, idx)
    ELSE IF LinearIdx(rShape, idx) = sel THEN 1 ELSE 0

\* x on a source rank, y on a destination rank (the tests' x and y, of the
\* sizes compute_subsizes gives)
LocalX(s) == [l \in IdxSet(InShape(s)) |-> GlobalValue(rXsel, SeqAdd(l, InStart(s)))]
LocalY(t) == [l \in IdxSet(OutShape(t)) |-> GlobalValue(rYsel, SeqAdd(l, OutStart(t)))]

RECURSIVE SumSet(_, _)
\* Sum of f[e] over e \in S.
SumSet(S, f) ==
    IF S = {} THEN 0
    ELSE LET e == CHOOSE x \in S : TRUE IN f[e] + SumSet(S \ {e}, f)

\* Position, inside the block starting at `start`, of global index g of
\* schedule entry e.
SrcLocalOfBox(e, g, start) == SeqSub(e.lo, start)
SrcLocal(e, g, start) == SeqSub(g, start)
DstLocalOfBox(e, g, start) == SeqSub(e.lo, start)
DstLocal(e, g, start) == SeqSub(g, start)

\* execute_forward: a destination rank places each incoming sub-block at
\* its local offset; what no sub-block covers stays zero.
ExecuteForward(sched, t) ==
    LET start == OutStart(t)
        mine == {e \in sched : e.dst = t}
        from == [r \in {e.src : e \in mine} |-> InStart(r)]
    IN  [l \in IdxSet(OutShape(t)) |->
            LET g == SeqAdd(l, start)
                cover == {e \in mine : InBox(e, g)}
            IN  IF cover = {} THEN 0
                ELSE LET e == CHOOSE c \in cover : TRUE
                     IN  rX[e.src][SrcLocal(e, g, from[e.src])]]

\* execute_adjoint: roles swapped, contributions summed.
ExecuteAdjoint(sched, s) ==
    LET start == InStart(s)
        mine == {e \in sched : e.src = s}
        to == [r \in {e.dst : e \in mine} |-> OutStart(r)]
    IN  [l \in IdxSet(InShape(s)) |->
            LET g == SeqAdd(l, start)
            IN  SumSet(mine, [e \in mine |->
                    IF InBox(e, g) THEN rY[e.dst][DstLocal(e, g, to[e.dst])] ELSE 0])]

\* DistributedTranspose(global_tensor_sizes, PC_in, PC_out)
Plan ==
    /\ rStage = "init"
    /\ rSched' = PlanSchedule
    /\ rStage' = "planned"
    /\ UNCHANGED <<rShape, rIn, rOut, rOff, rXsel, rYsel, rX, rY, rAx, rAsy>>
    /\ UNCHANGED <<negVars, asmVars, decVars>>

\* Ax = layer(x)
Forward ==
    /\ rStage = "planned"
    /\ rAx' = [t \in OutRanks |-> ExecuteForward(rSched, t)]
    /\ rStage' = "forwarded"
    /\ UNCHANGED <<rShape, rIn, rOut, rOff, rXsel, rYsel, rX, rY, rSched, rAsy>>
    /\ UNCHANGED <<negVars, asmVars, decVars>>

\* y is drawn; Ax.backward(y); Asy = x.grad is the adjoint of the drawn y
Adjoint ==
    /\ rStage = "forwarded"
    /\ UNCHANGED <<rShape, rIn, rOut, rOff, rXsel, rX, rSched, rAx>>
    /\ rYsel' \in 0 .. Prod(rShape)
    /\ rY' = [t \in OutRanks |-> LocalY(t)]'
    /\ rAsy' = [s \in InRanks |-> ExecuteAdjoint(rSched, s)]'
    /\ rStage' = "done"
    /\ UNCHANGED <<negVars, asmVars, decVars>>

\* <A@x, y>, summed over the destination ranks
InnerAxY ==
    SumSet(OutRanks,
           [t \in OutRanks |->
               LET I == IdxSet(OutShape(t))
               IN  SumSet(I, [l \in I |-> rAx[t][l] * rY[t][l]])])

\* <A*@y, x>, summed over the source ranks
InnerAsyX ==
    SumSet(InRanks,
           [s \in InRanks |->
               LET I == IdxSet(InShape(s))
               IN  SumSet(I, [l \in I |-> rAsy[s][l] * rX[s][l]])])

\* Global shapes of TensorAxes axes holding at most MaxElems elements.
RedShapes == {g \in [1 .. TensorAxes -> 1 .. MaxElems] : Prod(g) <= MaxElems}
RedGrids == [1 .. TensorAxes -> 1 .. MaxGridExtent]

RedInit ==
    /\ rShape \in RedShapes
    /\ rIn \in RedGrids
    /\ rOut \in RedGrids
    /\ rOff \in {0, 1}
    /\ rXsel \in 0 .. Prod(rShape)
    /\ rYsel = 0
    /\ rX = [s \in InRanks |-> LocalX(s)]
    /\ rY = <<>>
    /\ rStage = "init"
    /\ rSched = {}
    /\ rAx = <<>>
    /\ rAsy = <<>>

\* The redistribution machine at rest.
RedIdle ==
    /\ rShape = <<1, 1>>
    /\ rIn = <<1, 1>>
    /\ rOut = <<1, 1>>
    /\ rOff = 0
    /\ rXsel = 0
    /\ rYsel = 0
    /\ rX = <<>>
    /\ rY = <<>>
    /\ rStage = "idle"
    /\ rSched = {}
    /\ rAx = <<>>
    /\ rAsy = <<>>

\* ------------------------------------------------------------ flag decoding
\* The two places that turn the communicated flag integer back into a
\* boolean, applied to the same buffer content.
\* line 131: global_tensor_structure.requires_grad = bool(requires_grad_int[0])
DecodeAssembly ==
    /\ ~dAsm.def
    /\ dAsm' = Some(DecodeBool(dIn))
    /\ UNCHANGED <<dIn, dNeg>>
    /\ UNCHANGED <<negVars, asmVars, redVars>>

\* line 71: tensor_requires_grad = bool(rg_int_recv[0] == 1)
DecodeNegotiation ==
    /\ ~dNeg.def
    /\ dNeg' = Some(DecodeFlag(dIn))
    /\ UNCHANGED <<dIn, dAsm>>
    /\ UNCHANGED <<negVars, asmVars, redVars>>

\* The buffers are integer arrays: np.array([-1], dtype=np.int).
DecInit ==
    /\ dIn \in (-MaxFlagValue) .. MaxFlagValue
    /\ dAsm = NoneBool
    /\ dNeg = NoneBool

\* The decoders at rest.
DecIdle ==
    /\ dIn = 0
    /\ dAsm = Some(FALSE)
    /\ dNeg = Some(FALSE)

\* ----------------------------------------------------------- specifications
Init == NegInit /\ AsmIdle /\ RedIdle /\ DecIdle

Next == \E w \in Workers : Step(w)

Spec == Init /\ [][Next]_vars

\* Every MPI rank is its own process: a rank whose next statement can run runs.
SpecFair == Spec /\ \A w \in Workers : WF_vars(Step(w))

InitAsm == AsmInit /\ NegIdle /\ RedIdle /\ DecIdle

NextAsm == \E w \in Ranks : AsmStep(w)

SpecAsm == InitAsm /\ [][NextAsm]_vars

\* Termination of the assembly: every grid and every P_out, over one local
\* structure (no guard of the assembly reads the structure's values).  Every
\* rank is its own process: a rank whose next statement can run runs.
InitAsmFair ==
    /\ InitAsm
    /\ aLocal = [shape |-> [j \in 1 .. Len(aGrid) |-> MaxAsmExtent],
                 dtype |-> "float32", requires_grad |-> TRUE]

SpecAsmFair == InitAsmFair /\ [][NextAsm]_vars /\ \A w \in Ranks : WF_vars(AsmStep(w))

InitRedist == RedInit /\ NegIdle /\ AsmIdle /\ DecIdle

NextRedist == Plan \/ Forward \/ Adjoint

SpecRedist == InitRedist /\ [][NextRedist]_vars

InitDecode == DecInit /\ NegIdle /\ AsmIdle /\ RedIdle

NextDecode == DecodeAssembly \/ DecodeNegotiation

SpecDecode == InitDecode /\ [][NextDecode]_vars

\* ------------------------------------------------- negotiation: properties
\* The triple built from the source's local structure.
SourceTriple == Triple(tensor.requires_grad, Len(tensor.shape), tensor.shape)

\* C1 (as claimed): once every worker has completed the negotiation between
\* two different partitions that share a worker, every worker active in
\* P_recv has returned the source's (requires_grad, dimensionality, shape).
C1_NegotiationConvergence ==
    (~SamePartition /\ sendM \cap recvM # {} /\ AllTerminated)
        => \A w \in recvM : pc[w] = "done" /\ ret[w] = SourceTriple

C10_InactiveReturnsNothing ==
    \A w \in Workers :
        (w \notin sendM /\ w \notin recvM) =>
            /\ pc[w] \in {"start", "done"}
            /\ pc[w] = "start" => ENABLED Enter(w)
            /\ pc[w] = "done" => ret[w] = NoneTriple
            /\ issued[w]["send"] = <<>> /\ issued[w]["recv"] = <<>>
            /\ requests[w] = <<>>
            /\ nwaits[w] = 0
            /\ w \notin Members("send") /\ w \notin Members("recv")

C10_Witness ==
    \E w, v \in Workers :
        /\ w \notin sendM /\ w \notin recvM /\ pc[w] = "done" /\ ret[w] = NoneTriple
        /\ SendActive(v) /\ pc[v] = "done" /\ nwaits[v] = 1

\* --------------------------------------------------- assembly: properties
\* The structure the local blocks of P_in are blocks of.
GlobalStructure ==
    [shape |-> Some(aLocal.shape),
     dtype |-> aLocal.dtype,
     requires_grad |-> Some(aLocal.requires_grad)]

\* C3: whatever the relation between P_in's and P_out's members, a rank
\* active in P_out returns the global structure: the shape assembled on
\* P_in's ranks, the source's dtype and the source's flag.
C3_TransferToDestination ==
    \A w \in Ranks :
        (OutActive(w) /\ apc[w] = "done")
            => /\ aStruct[w] = GlobalStructure
               /\ aStruct[w].shape = aShape[BcastRoot]

C3_Witness ==
    /\ aOut.given
    /\ aOut.members \cap InMembers = {}
    /\ Cardinality(aOut.members) >= 2
    /\ Cardinality(InMembers) >= 2
    /\ ~aLocal.requires_grad
    /\ \A w \in aOut.members : apc[w] = "done" /\ aStruct[w] = GlobalStructure

\* C4: with every member of P_in holding its balanced block of the global
\* shape G, the sum of the local extents over the single-axis subgroup of
\* axis i is G[i], for every member and axis, so every member of P_in
\* assembles shape = G.
C4_RecoversGlobalShape ==
    \A w \in InMembers :
        /\ \A i \in 0 .. (InDim - 1) :
              (aAxis[w] > i) => aShape[w].v[i + 1] = aLocal.shape[i + 1]
        /\ apc[w] \in {"fields", "bshape", "bdtype", "bflag", "done"}
              => aShape[w] = Some(aLocal.shape)

C4_Witness ==
    /\ aGrid = <<2, 2>>
    /\ aLocal.shape = <<3, 3>>
    /\ \A w \in InMembers : apc[w] = "done" /\ aShape[w] = Some(<<3, 3>>)
    /\ \E w \in InMembers : LocalShape(w) = <<1, 2>>

\* --------------------------------------------- redistribution: properties
\* C5: for every global shape, source grid, destination grid, placement of
\* the destination ranks and inputs x and y, the inner product of
\* forward(x) with y summed over the destination ranks equals the inner
\* product of x with adjoint(y) summed over the source ranks.
C5_AdjointCorrectness == rStage = "done" => InnerAxY = InnerAsyX

C5_Witness ==
    /\ rStage = "done"
    /\ rShape = <<3, 2>> /\ rIn = <<2, 1>> /\ rOut = <<1, 2>> /\ rOff = 1
    /\ rXsel = 0 /\ rYsel = 0
    /\ InnerAxY = InnerAsyX /\ InnerAxY > 0

\* C6: the schedule covers every element of the global array by exactly
\* one (source, destination) pair, holds at most one entry per pair, and
\* holds no pair whose intersection is empty on some axis.
C6_ScheduleCompleteness ==
    rStage \in {"planned", "forwarded", "done"} =>
        /\ \A idx \in IdxSet(rShape) : Cardinality({e \in rSched : InBox(e, idx)}) = 1
        /\ \A e \in rSched :
              /\ e.src \in InRanks /\ e.dst \in OutRanks
              /\ \A j \in 1 .. Len(rShape) : e.lo[j] < e.hi[j]
        /\ \A e, f \in rSched : (e.src = f.src /\ e.dst = f.dst) => e = f

C6_Witness ==
    /\ rStage = "planned"
    /\ rShape = <<3, 1>> /\ rIn = <<2, 2>> /\ rOut = <<2, 1>>
    /\ Cardinality(rSched) = 2
    /\ Cardinality(InRanks \X OutRanks) = 8

\* Blocks of a grid over a global shape, as (start, shape) per rank.
BlocksOf(grid, sizes) ==
    [r \in 0 .. (Prod(grid) - 1) |->
        [start |-> ComputeStarts(grid, CoordsOf(grid, r), sizes),
         shape |-> ComputeSubsizes(grid, CoordsOf(grid, r), sizes)]]

InBlock(b, idx) ==
    \A j \in 1 .. Len(idx) : b.start[j] <= idx[j] /\ idx[j] < b.start[j] + b.shape[j]

Tiles(grid, sizes) ==
    LET blocks == BlocksOf(grid, sizes)
    IN  /\ \A idx \in IdxSet(sizes) :
              Cardinality({r \in DOMAIN blocks : InBlock(blocks[r], idx)}) = 1
        /\ \A r \in DOMAIN blocks :
              \A j \in 1 .. Len(sizes) :
                  blocks[r].start[j] >= 0
                      /\ blocks[r].start[j] + blocks[r].shape[j] <= sizes[j]

VolumeSum(grid, sizes) ==
    LET blocks == BlocksOf(grid, sizes)
    IN  SumSet(DOMAIN blocks, [r \in DOMAIN blocks |-> Prod(blocks[r].shape)])

\* C7: the blocks compute_subsizes gives the coordinates of a grid, placed
\* at their prefix-sum offsets, tile the global index space without gap or
\* overlap, and their volumes add up to the global volume; for the tests'
\* 77 x 55 array the volumes add up to 77*55 on the (4,1) and the (3,4) grid.
C7_BlockDecompositionTiles ==
    /\ rStage # "idle" =>
          /\ Tiles(rIn, rShape) /\ Tiles(rOut, rShape)
          /\ VolumeSum(rIn, rShape) = Prod(rShape)
          /\ VolumeSum(rOut, rShape) = Prod(rShape)
    /\ VolumeSum(<<4, 1>>, <<77, 55>>) = 77 * 55
    /\ VolumeSum(<<3, 4>>, <<77, 55>>) = 77 * 55

C7_Witness ==
    /\ rStage = "planned"
    /\ rShape = <<3, 1>> /\ rIn = <<2, 2>>
    /\ InShape(0) = <<2, 1>> /\ InShape(1) = <<2, 0>>
    /\ InShape(2) = <<1, 1>> /\ InStart(2) = <<2, 0>>

\* C8: with identical source and destination partitions and grids, forward
\* hands every rank its own block of x back and adjoint its own block of y.
C8_IdentityRoundTrip ==
    (rStage # "idle" /\ rIn = rOut /\ rOff = 0) =>
        /\ rStage \in {"forwarded", "done"} => \A t \in OutRanks : rAx[t] = rX[t]
        /\ rStage = "done" => \A s \in InRanks : rAsy[s] = rY[s]

C8_Witness ==
    /\ rStage = "done"
    /\ rIn = <<2, 2>> /\ rOut = <<2, 2>> /\ rOff = 0
    /\ rShape = <<3, 2>> /\ rXsel = 0 /\ rYsel = 0
    /\ rAx[0] = LocalX(0) /\ rAsy[3] = LocalY(3)
    /\ rX[0] = LocalX(0) /\ rY[3] = LocalY(3)
    /\ rAx[0][<<1, 0>>] = 3

\* ------------------------------------------ negotiation: further properties
\* C11 (as claimed): in the reductions scoped to P_recv (P_send != P_recv) a
\* worker active in both partitions contributes its true flag,
\* dimensionality and shape, and only a worker active in P_recv alone
\* contributes the sentinel -1.
C11_BothContributeTrueValues ==
    ~SamePartition =>
        \A w \in recvM :
            LET b == issued[w]["recv"]
                both == w \in sendM
            IN  /\ Len(b) >= 1 =>
                      b[1] = (IF both THEN <<FlagInt(tensor.requires_grad)>> ELSE <<-1>>)
                /\ Len(b) >= 2 =>
                      b[2] = (IF both THEN <<Len(tensor.shape)>> ELSE <<-1>>)
                /\ Len(b) >= 3 =>
                      b[3] = (IF both THEN tensor.shape
                              ELSE [j \in 1 .. Len(b[3]) |-> -1])

\* C12 (as claimed): a worker active in both partitions, whether the two
\* partitions differ or are the same, returns its own local structure.
C12_BothActiveReturnOwn ==
    \A w \in sendM \cap recvM :
        Terminated(w) => pc[w] = "done" /\ ret[w] = SourceTriple

\* C13 (as claimed): no worker reads the output of a reduction while one
\* of the requests it issued is still incomplete.
C13_NoReadWhileOutstanding == \A w \in Workers : ~earlyRead[w]

\* C13 (amended): the reduced dimensionality is read (line 59) once its own
\* reduction has completed, whatever the state of the worker's other
\* requests; the values returned are read only after every request of the
\* worker's list has completed.
C13_ReadsAfterOwnCompletion ==
    \A w \in Workers :
        /\ pc[w] \in {"alloc", "raised"} =>
              \A m \in recvM : Len(issued[m]["recv"]) >= 2
        /\ pc[w] \in {"final", "done"} =>
              \A i \in 1 .. Len(requests[w]) :
                  \A m \in Members(requests[w][i][1]) :
                      Len(issued[m][requests[w][i][1]]) >= requests[w][i][2]

C13_Witness ==
    /\ \E w \in Workers :
          /\ pc[w] = "raised" /\ earlyRead[w] /\ Len(requests[w]) = 4
    /\ \E v \in Workers : pc[v] = "done" /\ Len(requests[v]) = 3 /\ nwaits[v] = 1

\* C14 (as claimed): a worker active in P_recv (P_send != P_recv) that has
\* left the sizing of the shape buffer behind has issued the shape
\* reduction, after the dimensionality reduction completed, with a buffer of
\* as many entries as the reduced dimensionality, all -1; its flag
\* reduction is in the request list that the final Waitall joins.
C14_ShapeAfterDimension ==
    ~SamePartition =>
        \A w \in recvM :
            pc[w] \notin {"start", "send", "recv", "waitdim", "alloc"} =>
                /\ \A m \in recvM : Len(issued[m]["recv"]) >= 2
                /\ Len(issued[w]["recv"]) = 3
                /\ Len(issued[w]["recv"][3]) = Reduced("recv", 2)[1]
                /\ \A j \in 1 .. Len(issued[w]["recv"][3]) : issued[w]["recv"][3][j] = -1
                /\ \E i \in 1 .. Len(requests[w]) : requests[w][i] = <<"recv", 1>>

\* C15 (as claimed): a worker that has returned holds valid data if it is
\* active in P_send or in P_recv: a sending worker the values of its input
\* tensor, a receiving-only worker a triple of values; (None, None, None)
\* is returned only by workers active in neither partition.
C15_EveryActiveHoldsValid ==
    \A w \in Workers :
        pc[w] = "done" =>
            /\ w \in sendM => ret[w] = SourceTriple
            /\ (w \in recvM /\ w \notin sendM) => ret[w].tag = "value"
            /\ ret[w] = NoneTriple => (w \notin sendM /\ w \notin recvM)

\* ------------------------------------------- assembly: further properties
AsmAllDone == \A w \in Ranks : apc[w] = "done"

\* The collectives of the assembly are entered in one order: only members of
\* P_in run the axis loop, in axis order and in step with each other (the
\* subgroup of axis i+1 is created only once every member has reached axis
\* i); only ranks active in P_out run the three broadcasts, shape, dtype,
\* flag, and such a rank returns with all three received.
AsmCollectiveOrder ==
    \A w \in Ranks :
        /\ apc[w] \in {"sub", "reduce", "fields"} => w \in InMembers
        /\ apc[w] \in {"sub", "reduce"} => aAxis[w] < InDim
        /\ (w \in InMembers /\ apc[w] \notin {"start", "sub", "reduce"}) => aAxis[w] = InDim
        /\ w \in InMembers => \A v \in InMembers : aAxis[w] <= aAxis[v] + 1
        /\ apc[w] \in {"bshape", "bdtype", "bflag"} => (aOut.given /\ w \in aOut.members)
        /\ apc[w] = "bdtype" => aStruct[w].shape.def
        /\ apc[w] = "bflag" => aStruct[w].shape.def /\ aStruct[w].dtype # "None"
        /\ (apc[w] = "done" /\ aOut.given /\ w \in aOut.members) =>
              /\ aStruct[w].shape.def
              /\ aStruct[w].dtype # "None"
              /\ aStruct[w].requires_grad.def

\* C16: whatever P_out is (absent, P_in itself, overlapping P_in or disjoint
\* from it), the collectives are entered in one order and, with every rank
\* running, every rank eventually returns; a rank active in P_in alone
\* returns without entering a broadcast.
C16_AssemblyTerminates == []AsmCollectiveOrder /\ <>AsmAllDone

C16_Witness ==
    /\ AsmAllDone
    /\ aOut.given
    /\ \E w \in InMembers : w \notin aOut.members /\ aStruct[w].shape.def
    /\ \E w \in InMembers : w \in aOut.members
    /\ \E w \in aOut.members : w \notin InMembers /\ aStruct[w].shape.def
    /\ InDim = 2

\* ---------------------------------------- negotiation: collective matching
\* C17 (as claimed): the members of a communicator issue the same
\* reductions on it, with buffers of equal length at each position; a
\* member that has left the function has issued as many as any other
\* member, three on P_send.comm and, when P_send != P_recv, three on
\* P_recv.comm.
C17_ThreeMatchingReductions ==
    /\ \A c \in {"send", "recv"} :
          \A m1, m2 \in Members(c) :
              /\ \A k \in 1 .. Len(issued[m1][c]) :
                    k <= Len(issued[m2][c]) =>
                        Len(issued[m1][c][k]) = Len(issued[m2][c][k])
              /\ Terminated(m1) => Len(issued[m1][c]) >= Len(issued[m2][c])
    /\ \A m \in sendM : Terminated(m) => Len(issued[m]["send"]) = 3
    /\ ~SamePartition =>
          \A m \in recvM : Terminated(m) => Len(issued[m]["recv"]) = 3

\* C18: with P_send != P_recv, any two workers active in P_recv that have
\* returned hold the same triple.
C18_DestinationAgreement ==
    ~SamePartition =>
        \A w, v \in recvM :
            (pc[w] = "done" /\ pc[v] = "done") => ret[w] = ret[v]

\* The case C18 is about: a worker active in P_recv has returned.
C18_SomeDestinationReturned ==
    ~SamePartition /\ \E w \in recvM : pc[w] = "done"

\* C19: with a P_out given, any two ranks active in P_in or in P_out that
\* have returned hold the same shape, dtype and flag: a rank active in P_in
\* alone, which keeps what it assembled, agrees with a rank whose structure
\* the broadcasts wrote.
C19_UnionAgreement ==
    aOut.given =>
        \A w, v \in InMembers \cup aOut.members :
            (apc[w] = "done" /\ apc[v] = "done") => aStruct[w] = aStruct[v]

C19_Witness ==
    /\ aOut.given
    /\ aGrid = <<2, 1>> /\ aLocal.shape = <<3, 2>>
    /\ \E w \in InMembers \ aOut.members :
          \E v \in InMembers \cap aOut.members :
              \E u \in aOut.members \ InMembers :
                  /\ apc[w] = "done" /\ apc[v] = "done" /\ apc[u] = "done"
                  /\ aStruct[w] = aStruct[v] /\ aStruct[v] = aStruct[u]
                  /\ aStruct[w].shape = Some(<<3, 2>>)

====
